---- MODULE Spec2Model ----
(***************************************************************************)
(* Model of rkyv's archived hash map                                       *)
(* (rkyv/src/collections/hash_map/mod.rs): the compress-hash-displace      *)
(* builder serialize_from_iter, the header written by resolve_from_len,    *)
(* the lookup index() with the operations derived from it, and the raw     *)
(* iterators.                                                              *)
(*                                                                         *)
(* SeaHasher is a deterministic function of the bytes fed to it.  Its      *)
(* 64-bit output is abstracted to the range 0 .. HashRange-1 and the       *)
(* function itself is left unconstrained: a hash value is drawn when it is *)
(* first computed and remembered from then on (hash1 for a key alone,      *)
(* hash2 for a seed followed by a key).  During placement every (seed,     *)
(* key) pair is hashed at most once for each distinct key of a bucket, and *)
(* only the pairs of an accepted seed are hashed again (by index()), so    *)
(* only those are remembered.  The hashes of a probe key that is not in    *)
(* the input are drawn at each lookup, which admits every fixed function.  *)
(***************************************************************************)
EXTENDS Integers, Sequences, FiniteSets, TLC

\* ---------------------------------------------------------------- bounds
MaxLen == 3
HashRange == 3
NumSeeds == 3

\* one key more than any input holds, so that some key is always absent
Keys == 1 .. (MaxLen + 1)
HashVals == 0 .. (HashRange - 1)

\* The u32 displacement word.  The code tests a word against u32::MAX, tests
\* its high bit and walks the seeds 0x80_00_00_00 ..= 0xFF_FF_FF_FF; the word
\* is scaled so that the words below HighBit (high bit clear) are the slot
\* indices of the largest input (len < 2^31 becomes len < HighBit) and the
\* words HighBit .. U32_MAX (high bit set) are NumSeeds seeds.
HighBit == MaxLen + 1
U32_MAX == HighBit + NumSeeds - 1

None == [tag |-> "None"]
Some(x) == [tag |-> "Some", val |-> x]
Panic == [tag |-> "Panic"]

VARIABLES
    input,          \* the pairs yielded by `iter`, in order
    hash1,          \* make_hasher() fed a key, finish() (memo)
    hash2,          \* make_hasher() fed a seed then a key, finish() (memo)
    pc,             \* position of the builder / state of the archive
    bucket_size,
    displaces,
    entries,
    displacements,
    first_empty,
    assignments,
    start,
    seed,
    nserialized,    \* entries whose key and value were serialized
    archive,        \* the resolved ArchivedHashMap and the blocks it points to
    last,           \* the last lookup call and its result
    it,             \* the live iterator, if any
    yielded,        \* the items the live iterator has yielded
    nextRes,        \* what the last next() returned
    drawn,          \* the (seed, key) hashes of the last rejected seed
    twin,           \* a second construction, parked while the first one runs
    ser,            \* the serializer: the calls made to it and its position
    hdr,            \* the header written by resolve_from_len
    niche,          \* an ArchivedOptionNonZero and the last call made on it
    pin             \* the values written through pinned handles

vars == << input, hash1, hash2, pc, bucket_size, displaces, entries,
           displacements, first_empty, assignments, start, seed,
           nserialized, archive, last, it, yielded, nextRes, drawn, twin,
           ser, hdr, niche, pin >>

\* what the operations of the map itself leave alone
auxVars == << twin, ser, hdr, niche, pin >>

buildVars == << bucket_size, displaces, entries, displacements, first_empty,
                assignments, start, seed, nserialized >>

\* the `len` argument: by the safety contract the number of pairs yielded
len == Len(input)

Range(f) == { f[x] : x \in DOMAIN f }

\* ------------------------------------------------------------ Init
Entry(k, v) == [key |-> k, value |-> v]

\* Keys and values are opaque to the builder and to lookup: a key is only
\* hashed and compared, a value only moved.  The i-th pair of the input
\* therefore carries the key i and a value of its own; which key hashes
\* where is drawn with the hash values.  Keys above len are not in the map.
Inputs ==
    { [i \in 1 .. n |-> Entry(i, MaxLen + 1 + i)] : n \in 0 .. MaxLen }

\* no call to the archive is in progress
NoCall == [op |-> "none", key |-> 0, res |-> None]

NoArchive == [len |-> 0, displace |-> << >>, entries |-> << >>]

\* no second construction, no serializer, header or niched option in play,
\* nothing written through a pinned handle
NoTwin == [run |-> 0]
NoSer ==
    [log |-> << >>, pos |-> 0, at |-> "key", nresolved |-> 0,
     displace_pos |-> 0, entries_pos |-> 0, ret |-> None]
NoHdr == [tag |-> "None"]
NoNiche == [tag |-> "None"]
NoPin == [written |-> << >>]

\* the state of one construction before its first step
InitMap ==
    /\ input \in Inputs
    /\ len < HighBit
    /\ hash1 = << >>
    /\ hash2 = << >>
    /\ pc = "gather"
    /\ bucket_size = << >>
    /\ displaces = << >>
    /\ entries = << >>
    /\ displacements = << >>
    /\ first_empty = 0
    /\ assignments = << >>
    /\ start = 0
    /\ seed = HighBit
    /\ nserialized = 0
    /\ archive = NoArchive
    /\ last = NoCall
    /\ it = None
    /\ yielded = << >>
    /\ nextRes = None
    /\ drawn = << >>

Init ==
    /\ InitMap
    /\ twin = NoTwin
    /\ ser = NoSer
    /\ hdr = NoHdr
    /\ niche = NoNiche
    /\ pin = NoPin

\* ------------------------------------------------------------ builder
\* lines 270-276: hash every key, record its bucket, count bucket sizes
InputKeys == { input[i].key : i \in 1 .. len }

GatherDisplaces(h) ==
    [i \in 1 .. len |->
        [displace |-> h[input[i].key] % len,
         key |-> input[i].key, value |-> input[i].value]]

\* faulty variant: a bucket's size counts its distinct keys
GatherBucketSize_DistinctKeys(h) ==
    [d \in 0 .. (len - 1) |->
        Cardinality({ k \in InputKeys : h[k] % len = d })]

GatherBucketSize(h) ==
    [d \in 0 .. (len - 1) |->
        Cardinality({ i \in 1 .. len : h[input[i].key] % len = d })]

\* faulty variant: a hasher seeded anew by every construction
make_hasher_PerRun(run) == run

\* lines 66-73: every hasher starts from the same four constants, whichever
\* construction asks for it, so all of them compute one function
make_hasher(run) == 0

\* a pair is hashed once by a construction, so that only a second
\* construction (twin.run = 2) asks for a hash computed before, and gets
\* the same value if its hasher is the first construction's
Rehashing == twin.run = 2 /\ make_hasher(2) = make_hasher(1)

\* lines 271-273: what finish() may return for the keys of the input; a
\* key hashed before by the same function hashes to the same value
Hashes1 ==
    IF Rehashing
    THEN { h \in [InputKeys -> HashVals] :
             \A k \in InputKeys \cap DOMAIN hash1 : h[k] = hash1[k] }
    ELSE [InputKeys -> HashVals]

GatherHashes ==
    /\ pc = "gather"
    /\ \E h \in Hashes1 :
          /\ hash1' = [k \in InputKeys \cup DOMAIN hash1 |->
                          IF k \in InputKeys THEN h[k] ELSE hash1[k]]
          /\ bucket_size' = GatherBucketSize(h)
          /\ displaces' = GatherDisplaces(h)
    /\ pc' = "order"
    /\ UNCHANGED << input, hash2, entries, displacements, first_empty,
                    assignments, start, seed, nserialized, archive, last, it,
                    yielded, nextRes, drawn,
                    auxVars >>

\* faulty variant: the sort key without Reverse, smallest bucket first
SortKeyLE_Ascending(a, b) ==
    \/ bucket_size[a.displace] < bucket_size[b.displace]
    \/ /\ bucket_size[a.displace] = bucket_size[b.displace]
       /\ a.displace <= b.displace

\* line 278: the sort key (Reverse(bucket_size[displace]), displace)
SortKeyLE(a, b) ==
    \/ bucket_size[a.displace] > bucket_size[b.displace]
    \/ /\ bucket_size[a.displace] = bucket_size[b.displace]
       /\ a.displace <= b.displace

\* sort_by_key is a stable sort: x goes after every element whose key is <=
StableInsert(s, x) ==
    LET after == { i \in 1 .. Len(s) : SortKeyLE(s[i], x) }
        p == IF after = {} THEN 0
             ELSE CHOOSE i \in after : \A j \in after : j <= i
    IN  SubSeq(s, 1, p) \o << x >> \o SubSeq(s, p + 1, Len(s))

RECURSIVE SortByKey(_)
SortByKey(s) ==
    IF s = << >> THEN << >>
    ELSE StableInsert(SortByKey(SubSeq(s, 1, Len(s) - 1)), s[Len(s)])

\* lines 278-287
OrderBuckets ==
    /\ pc = "order"
    /\ displaces' = SortByKey(displaces)
    /\ entries' = [i \in 0 .. (len - 1) |-> None]
    /\ displacements' = [i \in 0 .. (len - 1) |-> U32_MAX]
    /\ first_empty' = 0
    /\ assignments' = << >>
    /\ start' = 0
    /\ pc' = "place"
    /\ UNCHANGED << input, hash1, hash2, bucket_size, seed, nserialized,
                    archive, last, it, yielded, nextRes, drawn,
                    auxVars >>

\* lines 289-292: the bucket that begins at `start` (0-based) in displaces
CurDisplace == displaces[start + 1].displace
CurSize == bucket_size[CurDisplace]
CurBucket == SubSeq(displaces, start + 1, start + CurSize)
CurKeys == { CurBucket[i].key : i \in 1 .. Len(CurBucket) }

\* lines 300-311: the indices claimed by the bucket's members under one seed;
\* stops at the first member that hits an occupied or already claimed slot
\* faulty variant: line 306 without the test assignments.contains(&index)
RECURSIVE TryAssign_NoClaimedTest(_, _, _, _)
TryAssign_NoClaimedTest(bucket, hv, i, asg) ==
    IF i > Len(bucket) THEN [ok |-> TRUE, assignments |-> asg]
    ELSE LET index == hv[bucket[i].key] % len
         IN  IF entries[index] # None
             THEN [ok |-> FALSE, assignments |-> asg]
             ELSE TryAssign_NoClaimedTest(bucket, hv, i + 1,
                                          Append(asg, index))

RECURSIVE TryAssign(_, _, _, _)
TryAssign(bucket, hv, i, asg) ==
    IF i > Len(bucket) THEN [ok |-> TRUE, assignments |-> asg]
    ELSE LET index == hv[bucket[i].key] % len
         IN  IF entries[index] # None \/ index \in Range(asg)
             THEN [ok |-> FALSE, assignments |-> asg]
             ELSE TryAssign(bucket, hv, i + 1, Append(asg, index))

\* faulty variant: line 314 stores the first member of the bucket in every slot
PlaceAssigned_First(bucket, asg) ==
    [j \in 0 .. (len - 1) |->
        IF \E i \in 1 .. Len(bucket) : asg[i] = j
        THEN Some(Entry(bucket[1].key, bucket[1].value))
        ELSE entries[j]]

\* faulty variant: line 314 reads the bucket from its end, bucket[size-1-i]
PlaceAssigned_Reversed(bucket, asg) ==
    [j \in 0 .. (len - 1) |->
        IF \E i \in 1 .. Len(bucket) : asg[i] = j
        THEN LET i == CHOOSE i \in 1 .. Len(bucket) : asg[i] = j
                 m == Len(bucket) + 1 - i
             IN  Some(Entry(bucket[m].key, bucket[m].value))
        ELSE entries[j]]

\* lines 313-315
PlaceAssigned(bucket, asg) ==
    [j \in 0 .. (len - 1) |->
        IF \E i \in 1 .. Len(bucket) : asg[i] = j
        THEN LET i == CHOOSE i \in 1 .. Len(bucket) : asg[i] = j
             IN  Some(Entry(bucket[i].key, bucket[i].value))
        ELSE entries[j]]

Remember(hv) ==
    [p \in (DOMAIN hash2) \cup { << seed, k >> : k \in CurKeys } |->
        IF p \in DOMAIN hash2 THEN hash2[p] ELSE hv[p[2]]]

\* what the hasher returns for (seed, key): the remembered value if any
HashOf(s, k) ==
    IF << s, k >> \in DOMAIN hash2 THEN { hash2[<< s, k >>] } ELSE HashVals

\* what the hasher returns for a key alone
HashOfKey(k) ==
    IF k \in DOMAIN hash1 THEN { hash1[k] } ELSE HashVals

NextBucket == start + CurSize

\* lines 313-317: every member passed the test; place them, write the seed
SeedAccepted(hv, asg) ==
    /\ entries' = PlaceAssigned(CurBucket, asg)
    /\ displacements' = [displacements EXCEPT ![CurDisplace] = seed]
    /\ hash2' = Remember(hv)
    /\ start' = NextBucket
    /\ seed' = HighBit

\* faulty variant: the seed is written to displacements before it is tested
SeedRejected_Marking ==
    /\ seed' = seed + 1
    /\ displacements' = [displacements EXCEPT ![CurDisplace] = seed]
    /\ UNCHANGED << entries, hash2, start >>

\* faulty variant: the scan goes on two seeds further
SeedRejected_Skipping ==
    /\ seed' = IF seed + 2 <= U32_MAX THEN seed + 2 ELSE U32_MAX
    /\ UNCHANGED << entries, displacements, hash2, start >>

\* line 307: `continue 'find_seed` with a seed left in the range
SeedRejected ==
    /\ seed' = seed + 1
    /\ UNCHANGED << entries, displacements, hash2, start >>

\* line 307 on the last seed of the range: the for loop ends without
\* reaching the break, nothing is written and the while loop goes on
SeedRangeExhausted ==
    /\ start' = NextBucket
    /\ seed' = HighBit
    /\ UNCHANGED << entries, displacements, hash2 >>

\* lines 297-305: what finish() may return for the members of the bucket
\* under the current seed; a (seed, key) pair hashed before by the same
\* function hashes to the same value
Known2(p) ==
    IF p \in DOMAIN hash2 THEN { hash2[p] }
    ELSE IF p \in DOMAIN drawn THEN { drawn[p] }
    ELSE HashVals

Hashes2 ==
    IF Rehashing
    THEN { hv \in [CurKeys -> HashVals] :
             \A k \in CurKeys : hv[k] \in Known2(<< seed, k >>) }
    ELSE [CurKeys -> HashVals]

\* lines 302-307: the members hashed before `continue 'find_seed`: those
\* that pushed an assignment and the one that failed the test
Hashed(hv, asg) ==
    [p \in { << seed, CurBucket[i].key >> : i \in 1 .. (Len(asg) + 1) } |->
        hv[p[2]]]

\* lines 295-318: one iteration of 'find_seed for the bucket at `start`
TrySeed ==
    /\ pc = "place"
    /\ start < Len(displaces)
    /\ CurSize > 1
    /\ \E hv \in Hashes2 :
          LET r == TryAssign(CurBucket, hv, 1, << >>)
          IN  /\ assignments' = r.assignments
              /\ drawn' = IF r.ok THEN << >> ELSE Hashed(hv, r.assignments)
              /\ IF r.ok THEN SeedAccepted(hv, r.assignments)
                 ELSE IF seed < U32_MAX THEN SeedRejected
                 ELSE SeedRangeExhausted
    /\ UNCHANGED << input, hash1, pc, bucket_size, displaces, first_empty,
                    nserialized, archive, last, it, yielded, nextRes,
                    auxVars >>

\* line 320-323: position of the first None in entries[first_empty..]
\* faulty variant: the search begins one slot after first_empty
EmptyFrom_Beyond(fe) == { j \in (fe + 1) .. (len - 1) : entries[j] = None }

EmptyFrom(fe) == { j \in fe .. (len - 1) : entries[j] = None }
\* faulty variant: the position of the last None instead of the first
Position_Last(fe) ==
    IF EmptyFrom(fe) = {} THEN None
    ELSE Some((CHOOSE j \in EmptyFrom(fe) : \A m \in EmptyFrom(fe) : j >= m) - fe)

Position(fe) ==
    IF EmptyFrom(fe) = {} THEN None
    ELSE Some((CHOOSE j \in EmptyFrom(fe) : \A m \in EmptyFrom(fe) : j <= m) - fe)

\* lines 319-328
PlaceSingleton ==
    /\ pc = "place"
    /\ start < Len(displaces)
    /\ CurSize <= 1
    /\ LET offset == Position(first_empty)
       IN  IF offset = None
           THEN /\ pc' = "panicked"
                /\ UNCHANGED << entries, displacements, first_empty, start >>
           ELSE LET fe == first_empty + offset.val
                IN  /\ entries' = [entries EXCEPT ![fe] =
                            Some(Entry(CurBucket[1].key, CurBucket[1].value))]
                    /\ displacements' =
                            [displacements EXCEPT ![CurDisplace] = fe]
                    /\ first_empty' = fe + 1
                    /\ start' = NextBucket
                    /\ pc' = pc
    /\ UNCHANGED << input, hash1, hash2, bucket_size, displaces, assignments,
                    seed, nserialized, archive, last, it, yielded, nextRes, drawn,
                    auxVars >>

\* faulty variant: the while loop stops one element short
PlaceDone_OneShort ==
    /\ pc = "place"
    /\ start >= Len(displaces) - 1
    /\ pc' = "serialize"
    /\ UNCHANGED << input, hash1, hash2, buildVars, archive, last, it,
                    yielded, nextRes, drawn,
                    auxVars >>

\* line 288: the while condition fails
PlaceDone ==
    /\ pc = "place"
    /\ start >= Len(displaces)
    /\ pc' = "serialize"
    /\ UNCHANGED << input, hash1, hash2, buildVars, archive, last, it,
                    yielded, nextRes, drawn,
                    auxVars >>

\* lines 332-338: serialize key and value of every slot in order; unwrap of
\* an unoccupied slot panics after the slots before it were serialized
FirstNone ==
    LET none == { j \in 0 .. (len - 1) : entries[j] = None }
    IN  IF none = {} THEN len
        ELSE CHOOSE j \in none : \A m \in none : j <= m

SerializeEntries ==
    /\ pc = "serialize"
    /\ nserialized' = FirstNone
    /\ pc' = IF FirstNone < len THEN "panicked" ELSE "write"
    /\ UNCHANGED << input, hash1, hash2, bucket_size, displaces, entries,
                    displacements, first_empty, assignments, start, seed,
                    archive, last, it, yielded, nextRes, drawn,
                    auxVars >>

\* lines 341-359: write the displacements block, then the entry records
WriteBlocks ==
    /\ pc = "write"
    /\ archive' = [archive EXCEPT
            !.displace = displacements,
            !.entries = [j \in 0 .. (len - 1) |-> entries[j].val]]
    /\ pc' = "resolve"
    /\ UNCHANGED << input, hash1, hash2, buildVars, last, it, yielded,
                    nextRes, drawn,
                    auxVars >>

\* lines 370-383
ResolveFromLen ==
    /\ pc = "resolve"
    /\ archive' = [archive EXCEPT !.len = len]
    /\ pc' = "ready"
    /\ UNCHANGED << input, hash1, hash2, buildVars, last, it, yielded,
                    nextRes, drawn,
                    auxVars >>

Build ==
    \/ GatherHashes
    \/ OrderBuckets
    \/ TrySeed
    \/ PlaceSingleton
    \/ PlaceDone
    \/ SerializeEntries
    \/ WriteBlocks
    \/ ResolveFromLen

\* ------------------------------------------------------------ archive
\* lines 62-64
Len_(a) == a.len

\* faulty variant: line 195 with the comparison inverted
is_empty_Inverted(a) == Len_(a) # 0

\* lines 194-196
is_empty(a) == Len_(a) = 0

\* lines 83-85 and 88-90: reads through the two relative pointers
displace(a, i) == a.displace[i]
entry(a, i) == a.entries[i]

\* lines 98-125; h1 is finish() of the hasher fed the key (line 105), h2
\* of the hasher fed the displacement and the key (line 116), which is read
\* only when the displacement has its high bit set
index(a, k, h1, h2) ==
    IF Len_(a) = 0 THEN Panic   \* line 105: remainder with a divisor of zero
    ELSE LET displace_index == h1 % Len_(a)
             d == displace(a, displace_index)
         IN  IF d = U32_MAX THEN None
             ELSE LET i == IF d < HighBit THEN d ELSE h2 % Len_(a)
                  IN  IF entry(a, i).key = k THEN Some(i) ELSE None

\* lines 129-138; a panic in index() unwinds through the call
get_key_value(a, k, h1, h2) ==
    LET r == index(a, k, h1, h2)
    IN  IF r.tag = "Some"
        THEN Some(<< entry(a, r.val).key, entry(a, r.val).value >>)
        ELSE r

\* lines 158-164
contains_key(a, k, h1, h2) ==
    LET r == index(a, k, h1, h2)
    IN  IF r = Panic THEN Panic ELSE Some(r.tag = "Some")

\* lines 168-175
get(a, k, h1, h2) ==
    LET r == index(a, k, h1, h2)
    IN  IF r.tag = "Some" THEN Some(entry(a, r.val).value) ELSE r

\* whether index() hashes a second time (lines 112-117)
NeedsSecondHash(a, h1) ==
    /\ Len_(a) > 0
    /\ displace(a, h1 % Len_(a)) # U32_MAX
    /\ displace(a, h1 % Len_(a)) >= HighBit

SecondHashes(a, k, h1) ==
    IF NeedsSecondHash(a, h1)
    THEN HashOf(displace(a, h1 % Len_(a)), k)
    ELSE { 0 }

Call(op, k, res) ==
    /\ last' = [op |-> op, key |-> k, res |-> res]
    /\ pc' = IF res = Panic THEN "panicked" ELSE pc
    /\ UNCHANGED << input, hash1, hash2, buildVars, archive, it, yielded,
                    nextRes, drawn,
                    auxVars >>

Get(k) ==
    /\ pc = "ready"
    /\ last = NoCall
    /\ \E h1 \in HashOfKey(k) : \E h2 \in SecondHashes(archive, k, h1) :
          Call("get", k, get(archive, k, h1, h2))

GetKeyValue(k) ==
    /\ pc = "ready"
    /\ last = NoCall
    /\ \E h1 \in HashOfKey(k) : \E h2 \in SecondHashes(archive, k, h1) :
          Call("get_key_value", k, get_key_value(archive, k, h1, h2))

ContainsKey(k) ==
    /\ pc = "ready"
    /\ last = NoCall
    /\ \E h1 \in HashOfKey(k) : \E h2 \in SecondHashes(archive, k, h1) :
          Call("contains_key", k, contains_key(archive, k, h1, h2))

CallLen ==
    /\ pc = "ready"
    /\ last = NoCall
    /\ last' = [op |-> "len", key |-> 0, res |-> Some(Len_(archive))]
    /\ UNCHANGED << input, hash1, hash2, pc, buildVars, archive, it, yielded,
                    nextRes, drawn,
                    auxVars >>

CallIsEmpty ==
    /\ pc = "ready"
    /\ last = NoCall
    /\ last' = [op |-> "is_empty", key |-> 0, res |-> Some(is_empty(archive))]
    /\ UNCHANGED << input, hash1, hash2, pc, buildVars, archive, it, yielded,
                    nextRes, drawn,
                    auxVars >>

\* the caller takes the result; the next call may begin
Return ==
    /\ pc = "ready"
    /\ last # NoCall
    /\ last' = NoCall
    /\ UNCHANGED << input, hash1, hash2, pc, buildVars, archive, it, yielded,
                    nextRes, drawn,
                    auxVars >>

Lookup ==
    \/ \E k \in Keys : Get(k)
    \/ \E k \in Keys : GetKeyValue(k)
    \/ \E k \in Keys : ContainsKey(k)
    \/ CallLen
    \/ CallIsEmpty
    \/ Return

Next == Build \/ Lookup

Spec == Init /\ [][Next]_vars

\* ------------------------------------------------------------ iterators
IterKinds == { "iter", "keys", "values", "iter_pin", "values_pin" }

\* faulty variant: `remaining` starts one short
RawIterNew_OneShort(kind, a) ==
    [kind |-> kind, current |-> 0,
     remaining |-> IF Len_(a) > 0 THEN Len_(a) - 1 ELSE 0]

\* lines 394-400 and 437-443, called from raw_iter (199-201) and
\* raw_iter_pin (204-209); `current` is the slot the pointer is at
RawIterNew(kind, a) == [kind |-> kind, current |-> 0, remaining |-> Len_(a)]

\* lines 421-423 and 464-466
size_hint(i) == << i.remaining, Some(i.remaining) >>

\* faulty variant: the pair closures of lines 485 and 511 yield (value, key)
Item_Swapped(kind, e) ==
    CASE kind \in { "iter", "iter_pin" } -> << e.value, e.key >>
      [] kind = "keys" -> e.key
      [] kind \in { "values", "values_pin" } -> e.value

\* the closures of lines 483-486, 509-512, 535-538, 561-564, 587-590
Item(kind, e) ==
    CASE kind \in { "iter", "iter_pin" } -> << e.key, e.value >>
      [] kind = "keys" -> e.key
      [] kind \in { "values", "values_pin" } -> e.value

NotCalled == [tag |-> "NotCalled"]

\* lines 213-249: iter, iter_pin, keys, values, values_pin
IterNew(kind) ==
    /\ pc = "ready"
    /\ it = None
    /\ it' = Some(RawIterNew(kind, archive))
    /\ yielded' = << >>
    /\ nextRes' = NotCalled
    /\ UNCHANGED << input, hash1, hash2, pc, buildVars, archive, last, drawn,
                    auxVars >>

\* faulty variant: next() takes the value out of the entry it yields
IterNext_Taking ==
    /\ pc = "ready"
    /\ it # None
    /\ IF it.val.remaining = 0
       THEN /\ nextRes' = None
            /\ UNCHANGED << it, yielded, archive >>
       ELSE LET result == Item(it.val.kind, entry(archive, it.val.current))
            IN  /\ it' = Some([it.val EXCEPT !.current = @ + 1,
                                             !.remaining = @ - 1])
                /\ nextRes' = Some(result)
                /\ yielded' = Append(yielded, result)
                /\ archive' = [archive EXCEPT
                                  !.entries[it.val.current].value = 0]
    /\ UNCHANGED << input, hash1, hash2, pc, buildVars, last, drawn,
                    auxVars >>

\* lines 407-418 and 450-461, through the next() of the wrapping iterator
IterNext ==
    /\ pc = "ready"
    /\ it # None
    /\ IF it.val.remaining = 0
       THEN /\ nextRes' = None
            /\ UNCHANGED << it, yielded >>
       ELSE LET result == Item(it.val.kind, entry(archive, it.val.current))
            IN  /\ it' = Some([it.val EXCEPT !.current = @ + 1,
                                             !.remaining = @ - 1])
                /\ nextRes' = Some(result)
                /\ yielded' = Append(yielded, result)
    /\ UNCHANGED << input, hash1, hash2, pc, buildVars, archive, last, drawn,
                    auxVars >>

Iterate ==
    \/ \E kind \in IterKinds : IterNew(kind)
    \/ IterNext

NextIter == Build \/ Iterate

SpecIter == Init /\ [][NextIter]_vars

\* ------------------------------------------------------------ two runs
\* A second call of serialize_from_iter (lines 257-360) followed by
\* resolve_from_len.  The variables hold the construction that is running
\* and twin.parked the other one; the hasher's function (hash1, hash2,
\* drawn) belongs to neither.  The first construction takes a step, then
\* the second one takes the same step.
Park ==
    [input |-> input, pc |-> pc, bucket_size |-> bucket_size,
     displaces |-> displaces, entries |-> entries,
     displacements |-> displacements, first_empty |-> first_empty,
     assignments |-> assignments, start |-> start, seed |-> seed,
     nserialized |-> nserialized, archive |-> archive]

\* a construction from the pairs `inp` that has not taken a step
Fresh(inp) ==
    [input |-> inp, pc |-> "gather", bucket_size |-> << >>,
     displaces |-> << >>, entries |-> << >>, displacements |-> << >>,
     first_empty |-> 0, assignments |-> << >>, start |-> 0,
     seed |-> HighBit, nserialized |-> 0, archive |-> NoArchive]

Finished(p) == p \in { "ready", "panicked" }

\* both constructions are at the same place of the code
InStep ==
    /\ pc = twin.parked.pc
    /\ start = twin.parked.start
    /\ seed = twin.parked.seed

\* the first construction runs when the second has caught up with it (or
\* has returned), the second one while it is behind
MayStep ==
    IF twin.run = 1 THEN InStep \/ Finished(twin.parked.pc)
    ELSE ~InStep

Switch ==
    /\ twin.run \in { 1, 2 }
    /\ IF twin.run = 1 THEN ~InStep /\ ~Finished(twin.parked.pc)
       ELSE (InStep \/ Finished(pc)) /\ ~Finished(twin.parked.pc)
    /\ twin' = [run |-> 3 - twin.run, parked |-> Park]
    /\ input' = twin.parked.input
    /\ pc' = twin.parked.pc
    /\ bucket_size' = twin.parked.bucket_size
    /\ displaces' = twin.parked.displaces
    /\ entries' = twin.parked.entries
    /\ displacements' = twin.parked.displacements
    /\ first_empty' = twin.parked.first_empty
    /\ assignments' = twin.parked.assignments
    /\ start' = twin.parked.start
    /\ seed' = twin.parked.seed
    /\ nserialized' = twin.parked.nserialized
    /\ archive' = twin.parked.archive
    /\ UNCHANGED << hash1, hash2, drawn, last, it, yielded, nextRes, ser,
                    hdr, niche, pin >>

\* the longest input given to the pair of constructions
MaxTwinLen == 2

\* both calls are given the same pairs in the same order
InitTwin ==
    /\ InitMap
    /\ len <= MaxTwinLen
    /\ twin = [run |-> 1, parked |-> Fresh(input)]
    /\ ser = NoSer
    /\ hdr = NoHdr
    /\ niche = NoNiche
    /\ pin = NoPin

NextTwin ==
    \/ MayStep /\ Build
    \/ Switch

SpecTwin == InitTwin /\ [][NextTwin]_vars

\* ------------------------------------------------------------ equality
\* lines 614-615: what other.get(key).map_or(false, |v| *value == *v) may
\* return for the entry of slot i of `a`
SlotOutcomes(a, b, i) ==
    LET k == entry(a, i).key
        v == entry(a, i).value
    IN  UNION { { get(b, k, h1, h2) = Some(v) :
                    h2 \in SecondHashes(b, k, h1) } : h1 \in HashOfKey(k) }

\* lines 608-618: the values a == b may have; the keys are distinct, so
\* their hashes are independent of one another
eq(a, b) ==
    IF Len_(a) # Len_(b) THEN { FALSE }
    ELSE LET slots == 0 .. (Len_(a) - 1)
         IN  { r \in BOOLEAN :
                 IF r THEN \A i \in slots : TRUE \in SlotOutcomes(a, b, i)
                 ELSE \E i \in slots : FALSE \in SlotOutcomes(a, b, i) }

\* the two archives compared, either way round
Eq ==
    /\ twin.run \in { 1, 2 }
    /\ pc = "ready"
    /\ twin.parked.pc = "ready"
    /\ last = NoCall
    /\ \E swap \in BOOLEAN :
          LET a == IF swap THEN twin.parked.archive ELSE archive
              b == IF swap THEN archive ELSE twin.parked.archive
          IN  \E r \in eq(a, b) :
                 last' = [op |-> "eq", key |-> 0, res |-> Some(r)]
    /\ UNCHANGED << input, hash1, hash2, pc, buildVars, archive, it, yielded,
                    nextRes, drawn, auxVars >>

\* the pairs of `inp` in every order
Orders(inp) ==
    { [i \in 1 .. Len(inp) |-> inp[f[i]]] :
        f \in { g \in [1 .. Len(inp) -> 1 .. Len(inp)] :
                  \A i, j \in 1 .. Len(inp) : g[i] = g[j] => i = j } }

\* the second map is built from the same pairs in some order, from the
\* same keys with one value changed, or from all the pairs but the last
Variants(inp) ==
    Orders(inp)
        \cup { [inp EXCEPT ![i].value = 0] : i \in 1 .. Len(inp) }
        \cup { SubSeq(inp, 1, Len(inp) - 1) : i \in 1 .. Len(inp) }

InitEq ==
    /\ InitMap
    /\ \E inp \in Variants(input) : twin = [run |-> 1, parked |-> Fresh(inp)]
    /\ ser = NoSer
    /\ hdr = NoHdr
    /\ niche = NoNiche
    /\ pin = NoPin

NextEq ==
    \/ MayStep /\ Build
    \/ Switch
    \/ Eq

SpecEq == InitEq /\ [][NextEq]_vars

\* a == b, b == a, a == a and b == b on the same two archives
EqBoth ==
    /\ twin.run \in { 1, 2 }
    /\ pc = "ready"
    /\ twin.parked.pc = "ready"
    /\ last = NoCall
    /\ LET a == archive
           b == twin.parked.archive
       IN  \E ab \in eq(a, b), ba \in eq(b, a), aa \in eq(a, a),
              bb \in eq(b, b) :
              last' = [op |-> "eq_both", key |-> 0,
                       res |-> Some([ab |-> ab, ba |-> ba,
                                     aa |-> aa, bb |-> bb])]
    /\ UNCHANGED << input, hash1, hash2, pc, buildVars, archive, it, yielded,
                    nextRes, drawn, auxVars >>

\* the second map is one of Variants, or holds another key in place of one
\* of the first map's keys
VariantsSym(inp) ==
    Variants(inp)
        \cup { [inp EXCEPT ![i].key = MaxLen + 1] : i \in 1 .. Len(inp) }

InitSym ==
    /\ InitMap
    /\ \E inp \in VariantsSym(input) :
          twin = [run |-> 1, parked |-> Fresh(inp)]
    /\ ser = NoSer
    /\ hdr = NoHdr
    /\ niche = NoNiche
    /\ pin = NoPin

NextSym ==
    \/ MayStep /\ Build
    \/ Switch
    \/ EqBoth

SpecSym == InitSym /\ [][NextSym]_vars

\* ------------------------------------------------------------ pinned access
\* lines 179-190: the handle is the slot whose value it points at
get_pin(a, k, h1, h2) == index(a, k, h1, h2)

\* lines 142-154: the key and the handle
get_key_value_pin(a, k, h1, h2) ==
    LET r == index(a, k, h1, h2)
    IN  IF r.tag = "Some" THEN Some(<< entry(a, r.val).key, r.val >>) ELSE r

GetPin(k) ==
    /\ pc = "ready"
    /\ last = NoCall
    /\ \E h1 \in HashOfKey(k) : \E h2 \in SecondHashes(archive, k, h1) :
          Call("get_pin", k, get_pin(archive, k, h1, h2))

GetKeyValuePin(k) ==
    /\ pc = "ready"
    /\ last = NoCall
    /\ \E h1 \in HashOfKey(k) : \E h2 \in SecondHashes(archive, k, h1) :
          Call("get_key_value_pin", k, get_key_value_pin(archive, k, h1, h2))

PinKinds == { "iter_pin", "values_pin" }

\* the slots a live Pin<&mut V> points at: the one returned by the last
\* get_pin or get_key_value_pin, the one the last next() of a pinned
\* iterator yielded (lines 450-461: `current` is one past it)
Handles ==
    (IF last.op = "get_pin" /\ last.res.tag = "Some"
     THEN { last.res.val } ELSE {})
    \cup (IF last.op = "get_key_value_pin" /\ last.res.tag = "Some"
          THEN { last.res.val[2] } ELSE {})
    \cup (IF it # None /\ it.val.kind \in PinKinds /\ nextRes.tag = "Some"
          THEN { it.val.current - 1 } ELSE {})

\* values no input pair carries
PinVals == { 0, MaxLen + 1 }

\* lines 93-95: the slot entry_mut(index) refers to
entry_mut(a, i) == i

\* a write of v through a live handle
PinWrite(v) ==
    /\ pc = "ready"
    /\ \E h \in Handles :
          /\ archive' = [archive EXCEPT
                            !.entries[entry_mut(archive, h)].value = v]
          /\ pin' = [written |->
                        [k \in DOMAIN pin.written \cup { entry(archive, h).key }
                            |-> IF k = entry(archive, h).key THEN v
                                ELSE pin.written[k]]]
    /\ UNCHANGED << input, hash1, hash2, pc, buildVars, last, it, yielded,
                    nextRes, drawn, twin, ser, hdr, niche >>

\* the iterator and the handles it yielded go out of scope
IterDrop ==
    /\ pc = "ready"
    /\ it # None
    /\ it' = None
    /\ yielded' = << >>
    /\ nextRes' = None
    /\ UNCHANGED << input, hash1, hash2, pc, buildVars, archive, last, drawn,
                    auxVars >>

\* a Pin<&mut Self> is exclusive: no call while an iterator is live and no
\* iterator while the result of a call is held
NextPin ==
    \/ Build
    \/ it = None /\ Lookup
    \/ it = None /\ \E k \in Keys : GetPin(k)
    \/ it = None /\ \E k \in Keys : GetKeyValuePin(k)
    \/ last = NoCall /\ Iterate
    \/ \E v \in PinVals : PinWrite(v)
    \/ IterDrop

SpecPin == Init /\ [][NextPin]_vars

\* ------------------------------------------------------------ indexing
\* lines 622-629: self.get(key).unwrap()
Index_index(a, k, h1, h2) ==
    LET r == get(a, k, h1, h2)
    IN  IF r = None THEN Panic ELSE r

IndexCall(k) ==
    /\ pc = "ready"
    /\ last = NoCall
    /\ \E h1 \in HashOfKey(k) : \E h2 \in SecondHashes(archive, k, h1) :
          Call("index", k, Index_index(archive, k, h1, h2))

NextIndex ==
    \/ Build
    \/ Lookup
    \/ \E k \in Keys : GetPin(k)
    \/ \E k \in Keys : GetKeyValuePin(k)
    \/ \E k \in Keys : IndexCall(k)

SpecIndex == Init /\ [][NextIndex]_vars

\* ------------------------------------------------------------ serializer
\* Lines 331-359 call by call.  The serializer is the caller's: each call
\* returns Ok or an error of its own (S::Error).  ser.log holds the calls
\* made with what each returned, ser.pos the position of the next write and
\* ser.ret what serialize_from_iter returned.
Errors == { "IoError", "OtherError" }
Outcomes == { "Ok" } \cup Errors

Ok(x) == [tag |-> "Ok", val |-> x]
Err(e) == [tag |-> "Err", val |-> e]

\* the archived u32 and the Entry record of two such words (lines 31-34)
SizeOfU32 == 4
SizeOfEntry == 8

\* where the serializer stands when serialize_from_iter is called: not
\* aligned for a u32, so that align_for pads
StartPositions == { 1 }

\* align_for: the first position at or after pos that `align` divides
AlignUp(pos, align) == pos + ((align - (pos % align)) % align)

\* faulty variant: every error is reported as an IoError
Propagate_AsIoError(e) == "IoError"

\* the `?` of lines 336-353: From::from of an S::Error to S::Error
Propagate(e) == e

Logged(name, j, r) ==
    [ser EXCEPT !.log = Append(@, [call |-> name, slot |-> j, res |-> r])]

\* the call returned Err(r) and `?` returns from serialize_from_iter
Failed(name, j, r) ==
    [Logged(name, j, r) EXCEPT !.ret = Err(Propagate(r))]

\* line 335-336: e.unwrap(), then key.serialize(serializer)?
SerializeKey ==
    /\ pc = "serialize"
    /\ nserialized < len
    /\ ser.at = "key"
    /\ IF entries[nserialized] = None
       THEN pc' = "panicked" /\ UNCHANGED ser
       ELSE \E r \in Outcomes :
               IF r = "Ok"
               THEN /\ ser' = [Logged("serialize_key", nserialized, r)
                                  EXCEPT !.at = "value"]
                    /\ pc' = pc
               ELSE /\ ser' = Failed("serialize_key", nserialized, r)
                    /\ pc' = "failed"
    /\ UNCHANGED << input, hash1, hash2, buildVars, archive, last, it,
                    yielded, nextRes, drawn, twin, hdr, niche, pin >>

\* line 336: value.serialize(serializer)?
SerializeValue ==
    /\ pc = "serialize"
    /\ nserialized < len
    /\ ser.at = "value"
    /\ \E r \in Outcomes :
          IF r = "Ok"
          THEN /\ ser' = [Logged("serialize_value", nserialized, r)
                             EXCEPT !.at = "key"]
               /\ nserialized' = nserialized + 1
               /\ pc' = pc
          ELSE /\ ser' = Failed("serialize_value", nserialized, r)
               /\ pc' = "failed"
               /\ UNCHANGED nserialized
    /\ UNCHANGED << input, hash1, hash2, bucket_size, displaces, entries,
                    displacements, first_empty, assignments, start, seed,
                    archive, last, it, yielded, nextRes, drawn, twin, hdr,
                    niche, pin >>

\* lines 338-341: collect() is Ok, then serializer.align_for::<u32>()?
AlignDisplace ==
    /\ pc = "serialize"
    /\ nserialized = len
    /\ \E r \in Outcomes :
          IF r = "Ok"
          THEN /\ ser' = [Logged("align_for", 0, r) EXCEPT
                             !.pos = AlignUp(ser.pos, SizeOfU32),
                             !.displace_pos = AlignUp(ser.pos, SizeOfU32)]
               /\ pc' = "write_displace"
          ELSE /\ ser' = Failed("align_for", 0, r)
               /\ pc' = "failed"
    /\ UNCHANGED << input, hash1, hash2, buildVars, archive, last, it,
                    yielded, nextRes, drawn, twin, hdr, niche, pin >>

\* lines 342-346: serializer.write(displacements_slice)?
WriteDisplacements ==
    /\ pc = "write_displace"
    /\ \E r \in Outcomes :
          IF r = "Ok"
          THEN /\ ser' = [Logged("write", 0, r) EXCEPT
                             !.pos = @ + len * SizeOfU32]
               /\ archive' = [archive EXCEPT !.displace = displacements]
               /\ pc' = "align_entries"
          ELSE /\ ser' = Failed("write", 0, r)
               /\ pc' = "failed"
               /\ UNCHANGED archive
    /\ UNCHANGED << input, hash1, hash2, buildVars, last, it, yielded,
                    nextRes, drawn, twin, hdr, niche, pin >>

\* line 348: serializer.align_for::<Entry<K, V>>()?
AlignEntries ==
    /\ pc = "align_entries"
    /\ \E r \in Outcomes :
          IF r = "Ok"
          THEN /\ ser' = [Logged("align_for", 1, r) EXCEPT
                             !.pos = AlignUp(ser.pos, SizeOfU32),
                             !.entries_pos = AlignUp(ser.pos, SizeOfU32)]
               /\ pc' = "resolve_entries"
          ELSE /\ ser' = Failed("align_for", 1, r)
               /\ pc' = "failed"
    /\ UNCHANGED << input, hash1, hash2, buildVars, archive, last, it,
                    yielded, nextRes, drawn, twin, hdr, niche, pin >>

\* lines 349-354: serializer.resolve_aligned(&Entry { key, value }, ..)?
ResolveAligned ==
    /\ pc = "resolve_entries"
    /\ ser.nresolved < len
    /\ \E r \in Outcomes :
          IF r = "Ok"
          THEN /\ ser' = [Logged("resolve_aligned", ser.nresolved, r) EXCEPT
                             !.pos = AlignUp(ser.pos, SizeOfU32) + SizeOfEntry,
                             !.nresolved = @ + 1]
               /\ archive' = [archive EXCEPT !.entries =
                     [j \in 0 .. ser.nresolved |-> entries[j].val]]
               /\ pc' = pc
          ELSE /\ ser' = Failed("resolve_aligned", ser.nresolved, r)
               /\ pc' = "failed"
               /\ UNCHANGED archive
    /\ UNCHANGED << input, hash1, hash2, buildVars, last, it, yielded,
                    nextRes, drawn, twin, hdr, niche, pin >>

\* faulty variant: the resolver built with the two positions exchanged
ReturnResolver_Swapped ==
    /\ pc = "resolve_entries"
    /\ ser.nresolved = len
    /\ ser' = [ser EXCEPT !.ret =
                  Ok([displace_pos |-> ser.entries_pos,
                      entries_pos |-> ser.displace_pos])]
    /\ pc' = "resolve"
    /\ UNCHANGED << input, hash1, hash2, buildVars, archive, last, it,
                    yielded, nextRes, drawn, twin, hdr, niche, pin >>

\* lines 356-359
ReturnResolver ==
    /\ pc = "resolve_entries"
    /\ ser.nresolved = len
    /\ ser' = [ser EXCEPT !.ret =
                  Ok([displace_pos |-> ser.displace_pos,
                      entries_pos |-> ser.entries_pos])]
    /\ pc' = "resolve"
    /\ UNCHANGED << input, hash1, hash2, buildVars, archive, last, it,
                    yielded, nextRes, drawn, twin, hdr, niche, pin >>

\* ------------------------------------------------------------ header
\* The relative pointer (RawRelPtr) stores target - self in a signed field.
\* The field is scaled from 32 bits to OffsetBits, as the displacement word
\* is, so that the blocks of the largest input can be too far away.
OffsetBits == 5
OffsetMin == -(2 ^ (OffsetBits - 1))
OffsetMax == 2 ^ (OffsetBits - 1) - 1

Fits(offset) == OffsetMin <= offset /\ offset <= OffsetMax

\* RawRelPtr::emplace(from, to, out): writes to - from into out, or fails
\* with OffsetOverflow and writes nothing
emplace(from, to) ==
    IF Fits(to - from) THEN Ok(to - from) ELSE Err("OffsetOverflow")

\* lines 52-57 with out_field! (lines 378, 381): the offsets of the fields
\* len, displace and entries in the header, each one word wide
FieldOffset ==
    [len |-> 0, displace |-> SizeOfU32, entries |-> 2 * SizeOfU32]

\* faulty variant: the position of the header instead of the field's
FieldPos_OfHeader(pos, fp) == pos

\* lines 379 and 382: pos + fp
FieldPos(pos, fp) == pos + fp

\* the header is written after the blocks, up to MaxGap words further on
MaxGap == 3
HeaderPositions ==
    { AlignUp(ser.pos, SizeOfU32) + g * SizeOfU32 : g \in 0 .. MaxGap }

\* faulty variant: the two targets exchanged between the fields
resolve_from_len_Exchanged(n, pos, resolver) ==
    LET d == emplace(FieldPos(pos, FieldOffset.displace),
                     resolver.entries_pos)
        e == emplace(FieldPos(pos, FieldOffset.entries),
                     resolver.displace_pos)
    IN  [pos |-> pos,
         len |-> Some(n),
         displace |-> IF d.tag = "Ok" THEN Some(d.val) ELSE None,
         entries |-> IF d.tag = "Ok" /\ e.tag = "Ok" THEN Some(e.val)
                     ELSE None,
         res |-> IF d.tag = "Err" THEN d
                 ELSE IF e.tag = "Err" THEN e ELSE Ok(<< >>)]

\* lines 370-383: the fields written to `out` (None: left uninitialized)
\* and how the function ends; resolve_from_len returns nothing, so that a
\* failed emplace ends it there and goes on to its caller
resolve_from_len(n, pos, resolver) ==
    LET d == emplace(FieldPos(pos, FieldOffset.displace),
                     resolver.displace_pos)
        e == emplace(FieldPos(pos, FieldOffset.entries),
                     resolver.entries_pos)
    IN  [pos |-> pos,
         len |-> Some(n),
         displace |-> IF d.tag = "Ok" THEN Some(d.val) ELSE None,
         entries |-> IF d.tag = "Ok" /\ e.tag = "Ok" THEN Some(e.val)
                     ELSE None,
         res |-> IF d.tag = "Err" THEN d
                 ELSE IF e.tag = "Err" THEN e ELSE Ok(<< >>)]

\* the caller of serialize_from_iter resolves the header with its resolver
ResolveHeader ==
    /\ pc = "resolve"
    /\ ser.ret.tag = "Ok"
    /\ \E pos \in HeaderPositions :
          LET out == resolve_from_len(len, pos, ser.ret.val)
          IN  /\ hdr' = out
              /\ IF out.res.tag = "Ok"
                 THEN /\ archive' = [archive EXCEPT !.len = len]
                      /\ pc' = "ready"
                 ELSE /\ archive' = archive
                      /\ pc' = "overflow"
    /\ UNCHANGED << input, hash1, hash2, buildVars, last, it, yielded,
                    nextRes, drawn, twin, ser, niche, pin >>

InitSer ==
    /\ InitMap
    /\ twin = NoTwin
    /\ \E p \in StartPositions : ser = [NoSer EXCEPT !.pos = p]
    /\ hdr = NoHdr
    /\ niche = NoNiche
    /\ pin = NoPin

NextSer ==
    \/ GatherHashes
    \/ OrderBuckets
    \/ TrySeed
    \/ PlaceSingleton
    \/ PlaceDone
    \/ SerializeKey
    \/ SerializeValue
    \/ AlignDisplace
    \/ WriteDisplacements
    \/ AlignEntries
    \/ ResolveAligned
    \/ ReturnResolver
    \/ ResolveHeader

SpecSer == InitSer /\ [][NextSer]_vars

\* the construction is one sequential call: it goes on while a step is
\* left; followed to its end on the inputs of at most MaxTwinLen pairs
InitSerFair == InitSer /\ len <= MaxTwinLen

SpecSerFair == InitSerFair /\ [][NextSer]_vars /\ WF_vars(NextSer)

\* ------------------------------------------------------------ equal keys
\* serialize_from_iter called against its safety contract (line 255): the
\* iterator yields a key twice.  The inputs are those of Inputs and those
\* with the key of one pair replaced by the key of an earlier pair.
DupInputs ==
    UNION { { [inp EXCEPT ![p[2]].key = inp[p[1]].key] :
                p \in { q \in (1 .. Len(inp)) \X (1 .. Len(inp)) :
                          q[1] < q[2] } } : inp \in Inputs }

InitDup ==
    /\ input \in Inputs \cup DupInputs
    /\ len < HighBit
    /\ hash1 = << >>
    /\ hash2 = << >>
    /\ pc = "gather"
    /\ bucket_size = << >>
    /\ displaces = << >>
    /\ entries = << >>
    /\ displacements = << >>
    /\ first_empty = 0
    /\ assignments = << >>
    /\ start = 0
    /\ seed = HighBit
    /\ nserialized = 0
    /\ archive = NoArchive
    /\ last = NoCall
    /\ it = None
    /\ yielded = << >>
    /\ nextRes = None
    /\ drawn = << >>
    /\ twin = NoTwin
    /\ ser = NoSer
    /\ hdr = NoHdr
    /\ niche = NoNiche
    /\ pin = NoPin

SpecDup == InitDup /\ [][Build]_vars

\* ------------------------------------------------------------ relocation
\* resolve_from_len (lines 370-383) called with a resolver and a header
\* position of any layout: the header of three words before the blocks,
\* between them or after them.  ser.ret holds where the blocks are and
\* hdr.pos where the header is; moving the buffer moves them all and
\* leaves the bytes of the header as they are.
HeaderSize == 3 * SizeOfU32
MaxWord == 3 * MaxLen + MaxGap + 3
AllPositions == { w * SizeOfU32 : w \in 0 .. MaxWord }

\* the blocks of n entries at dp and ep and the header at pos do not overlap
Disjoint(n, dp, ep, pos) ==
    /\ dp + n * SizeOfU32 <= ep
    /\ \/ pos + HeaderSize <= dp
       \/ dp + n * SizeOfU32 <= pos /\ pos + HeaderSize <= ep
       \/ ep + n * SizeOfEntry <= pos

InitHdr ==
    /\ input \in Inputs
    /\ hash1 = << >>
    /\ hash2 = << >>
    /\ pc = "resolve"
    /\ bucket_size = << >>
    /\ displaces = << >>
    /\ entries = << >>
    /\ displacements = << >>
    /\ first_empty = 0
    /\ assignments = << >>
    /\ start = 0
    /\ seed = HighBit
    /\ nserialized = len
    /\ archive = NoArchive
    /\ last = NoCall
    /\ it = None
    /\ yielded = << >>
    /\ nextRes = None
    /\ drawn = << >>
    /\ twin = NoTwin
    /\ \E dp, ep \in AllPositions :
          /\ dp + len * SizeOfU32 <= ep
          /\ ser = [NoSer EXCEPT
                       !.nresolved = len,
                       !.displace_pos = dp,
                       !.entries_pos = ep,
                       !.ret = Ok([displace_pos |-> dp, entries_pos |-> ep])]
    /\ hdr = NoHdr
    /\ niche = NoNiche
    /\ pin = NoPin

\* lines 370-383, for a header anywhere clear of the blocks
ResolveAnywhere ==
    /\ pc = "resolve"
    /\ ser.ret.tag = "Ok"
    /\ \E pos \in AllPositions :
          /\ Disjoint(len, ser.ret.val.displace_pos,
                      ser.ret.val.entries_pos, pos)
          /\ LET out == resolve_from_len(len, pos, ser.ret.val)
             IN  /\ hdr' = out
                 /\ pc' = IF out.res.tag = "Ok" THEN "ready" ELSE "overflow"
    /\ UNCHANGED << input, hash1, hash2, buildVars, archive, last, it,
                    yielded, nextRes, drawn, twin, ser, niche, pin >>

\* the buffer is copied or mapped c bytes further on (or back)
Relocate(c) ==
    /\ pc = "ready"
    /\ hdr.pos + c \in AllPositions
    /\ ser.ret.val.displace_pos + c \in AllPositions
    /\ ser.ret.val.entries_pos + c \in AllPositions
    /\ hdr' = [hdr EXCEPT !.pos = @ + c]
    /\ ser' = [ser EXCEPT
                  !.pos = @ + c,
                  !.ret = Ok([displace_pos |-> ser.ret.val.displace_pos + c,
                              entries_pos |-> ser.ret.val.entries_pos + c])]
    /\ UNCHANGED << input, hash1, hash2, pc, buildVars, archive, last, it,
                    yielded, nextRes, drawn, twin, niche, pin >>

NextHdr ==
    \/ ResolveAnywhere
    \/ \E c \in { -SizeOfU32, SizeOfU32 } : Relocate(c)

SpecHdr == InitHdr /\ [][NextHdr]_vars

\* ------------------------------------------------------------ readers
\* Two readers share the archive (&self): one makes lookup calls and holds
\* the result of the last one (`last`), the other holds an iterator (`it`).
\* A get and an iteration by iter() overlap in every way; the other reads
\* run while the other reader is idle.

\* a == a: the archive compared with itself (lines 608-618)
EqSelf ==
    /\ pc = "ready"
    /\ last = NoCall
    /\ \E r \in eq(archive, archive) :
          last' = [op |-> "eq", key |-> 0, res |-> Some(r)]
    /\ UNCHANGED << input, hash1, hash2, pc, buildVars, archive, it, yielded,
                    nextRes, drawn, auxVars >>

SharedKinds == { "iter", "keys", "values" }

\* the other reader holds no iterator, or one made by iter()
IterIdle == IF it = None THEN TRUE ELSE it.val.kind = "iter"

\* the readers are followed on the archives of at most MaxReadLen entries
MaxReadLen == 2
Readable == pc = "ready" /\ Len_(archive) <= MaxReadLen

NextRead ==
    \/ Build
    \/ Readable /\ IterIdle /\ \E k \in Keys : Get(k)
    \/ Readable /\ it = None /\ \E k \in Keys : GetKeyValue(k)
    \/ Readable /\ it = None /\ \E k \in Keys : ContainsKey(k)
    \/ Readable /\ it = None /\ \E k \in Keys : IndexCall(k)
    \/ Readable /\ it = None /\ CallLen
    \/ Readable /\ it = None /\ CallIsEmpty
    \/ Readable /\ it = None /\ EqSelf
    \/ Return
    \/ Readable /\ last.op \in { "none", "get" } /\ IterNew("iter")
    \/ Readable /\ last = NoCall
          /\ \E kind \in SharedKinds \ { "iter" } : IterNew(kind)
    \/ IterNext
    \/ IterDrop

SpecRead == Init /\ [][NextRead]_vars

\* ------------------------------------------------------------ index, by steps
\* index() (lines 98-125) statement by statement.  `last` holds the call in
\* progress: where it is (at), what it has computed (h1, d, h2, i) and how
\* many times it has hashed (hashes), read a displacement word (words),
\* read an entry (reads) and compared two keys (compares).
ProbeBegin(k) ==
    /\ pc = "ready"
    /\ last = NoCall
    /\ \E h1 \in HashOfKey(k) :
          last' = [op |-> "probe", key |-> k,
                   at |-> IF Len_(archive) = 0 THEN "done" ELSE "displace",
                   res |-> IF Len_(archive) = 0 THEN Panic ELSE None,
                   h1 |-> h1, d |-> 0, h2 |-> 0, i |-> 0,
                   hashes |-> 1, words |-> 0, reads |-> 0, compares |-> 0]
    /\ pc' = IF Len_(archive) = 0 THEN "panicked" ELSE pc
    /\ UNCHANGED << input, hash1, hash2, buildVars, archive, it, yielded,
                    nextRes, drawn, auxVars >>

\* faulty variant: line 108 missing, the sentinel is taken for a seed
ProbeDisplace_NoSentinelTest ==
    /\ pc = "ready"
    /\ last.op = "probe"
    /\ last.at = "displace"
    /\ LET d == displace(archive, last.h1 % Len_(archive))
       IN  last' = [last EXCEPT
                      !.d = d,
                      !.words = @ + 1,
                      !.i = IF d < HighBit THEN d ELSE 0,
                      !.at = IF d < HighBit THEN "entry" ELSE "rehash"]
    /\ UNCHANGED << input, hash1, hash2, pc, buildVars, archive, it, yielded,
                    nextRes, drawn, auxVars >>

\* lines 106-111: read the displacement word and branch on it
ProbeDisplace ==
    /\ pc = "ready"
    /\ last.op = "probe"
    /\ last.at = "displace"
    /\ LET d == displace(archive, last.h1 % Len_(archive))
       IN  last' = [last EXCEPT
                      !.d = d,
                      !.words = @ + 1,
                      !.i = IF d < HighBit THEN d ELSE 0,
                      !.at = IF d = U32_MAX THEN "done"
                             ELSE IF d < HighBit THEN "entry"
                             ELSE "rehash"]
    /\ UNCHANGED << input, hash1, hash2, pc, buildVars, archive, it, yielded,
                    nextRes, drawn, auxVars >>

\* lines 113-116: hash the displacement and the key
ProbeRehash ==
    /\ pc = "ready"
    /\ last.op = "probe"
    /\ last.at = "rehash"
    /\ \E h2 \in HashOf(last.d, last.key) :
          last' = [last EXCEPT
                     !.h2 = h2,
                     !.hashes = @ + 1,
                     !.i = h2 % Len_(archive),
                     !.at = "entry"]
    /\ UNCHANGED << input, hash1, hash2, pc, buildVars, archive, it, yielded,
                    nextRes, drawn, auxVars >>

\* lines 119-124: read the entry and compare its key with k
ProbeEntry ==
    /\ pc = "ready"
    /\ last.op = "probe"
    /\ last.at = "entry"
    /\ last' = [last EXCEPT
                   !.reads = @ + 1,
                   !.compares = @ + 1,
                   !.res = IF entry(archive, last.i).key = last.key
                           THEN Some(last.i) ELSE None,
                   !.at = "done"]
    /\ UNCHANGED << input, hash1, hash2, pc, buildVars, archive, it, yielded,
                    nextRes, drawn, auxVars >>

\* the caller takes the result; the next call may begin
ProbeReturn ==
    /\ pc = "ready"
    /\ last.op = "probe"
    /\ last.at = "done"
    /\ last' = NoCall
    /\ UNCHANGED << input, hash1, hash2, pc, buildVars, archive, it, yielded,
                    nextRes, drawn, auxVars >>

\* the calls are followed on the archives of at most MaxReadLen entries
InitProbe == Init /\ len <= MaxReadLen

NextProbe ==
    \/ Build
    \/ \E k \in Keys : ProbeBegin(k)
    \/ ProbeDisplace
    \/ ProbeRehash
    \/ ProbeEntry
    \/ ProbeReturn

SpecProbe == InitProbe /\ [][NextProbe]_vars

\* ------------------------------------------------------------ niche
\* niche/option_nonzero.rs: ArchivedOptionNonZero* holds one archived
\* integer `inner`, 0 standing for None.  The integer is two bytes of
\* ByteBits bits, signed or unsigned, stored in the byte order of the
\* archive; niche.opt is the Option<NonZero> the field was resolved from,
\* followed through the calls as an Option.
ByteBits == 2
Byte == 2 ^ ByteBits
Word == Byte * Byte

Endians == { "little", "big" }

\* the values of $ne and of $nz
Ints(signed) ==
    IF signed THEN (-(Word \div 2)) .. (Word \div 2 - 1) ELSE 0 .. (Word - 1)
NonZero(signed) == Ints(signed) \ { 0 }

\* .into(): the bytes of Archived<$ne> for a native integer
to_archived(endian, x) ==
    LET p == x % Word
    IN  IF endian = "little" THEN << p % Byte, p \div Byte >>
        ELSE << p \div Byte, p % Byte >>

\* the native integer an Archived<$ne> stands for
from_archived(endian, signed, b) ==
    LET p == IF endian = "little" THEN b[1] + Byte * b[2]
             ELSE b[2] + Byte * b[1]
    IN  IF signed /\ p >= Word \div 2 THEN p - Word ELSE p

Native(n) == from_archived(n.endian, n.signed, n.inner)

\* lines 170-180
resolve_from_option(endian, field) ==
    IF field # None THEN to_archived(endian, field.val)
    ELSE to_archived(endian, 0)

\* lines 30-32
is_none(n) == Native(n) = 0

\* lines 36-38
is_some(n) == Native(n) # 0

\* faulty variant: the value is returned and left in place
take_Copying(n) ==
    IF Native(n) # 0 THEN [inner |-> n.inner, res |-> Some(n.inner)]
    ELSE [inner |-> n.inner, res |-> None]

\* lines 85-98: the bytes replaced are returned as an Archived<$nz>
take(n) ==
    IF Native(n) # 0
    THEN [inner |-> to_archived(n.endian, 0), res |-> Some(n.inner)]
    ELSE [inner |-> n.inner, res |-> None]

\* lines 155-166: the reference returned is to `inner`
get_or_insert_with(n, f) ==
    LET inner == IF Native(n) = 0 THEN to_archived(n.endian, f)
                 ELSE n.inner
    IN  [inner |-> inner, res |-> inner]

\* lines 149-151
get_or_insert(n, v) == get_or_insert_with(n, v)

mapVars ==
    << input, hash1, hash2, pc, buildVars, archive, last, it, yielded,
       nextRes, drawn, twin, ser, hdr, pin >>

\* the option after a call, with the call and what it returned
Called(op, arg, inner, opt, res) ==
    [niche EXCEPT !.inner = inner, !.opt = opt, !.op = op,
                  !.prev = niche.op, !.arg = arg, !.res = res,
                  !.before = niche.opt]

IsNone ==
    /\ niche' = Called("is_none", 0, niche.inner, niche.opt, is_none(niche))
    /\ UNCHANGED mapVars

IsSome ==
    /\ niche' = Called("is_some", 0, niche.inner, niche.opt, is_some(niche))
    /\ UNCHANGED mapVars

Take ==
    /\ LET r == take(niche)
       IN  niche' = Called("take", 0, r.inner, None, r.res)
    /\ UNCHANGED mapVars

GetOrInsert(v) ==
    /\ LET r == get_or_insert(niche, v)
       IN  niche' = Called("get_or_insert", v, r.inner,
                           IF niche.opt = None THEN Some(v) ELSE niche.opt,
                           r.res)
    /\ UNCHANGED mapVars

InitNiche ==
    /\ InitMap
    /\ input = << >>
    /\ twin = NoTwin
    /\ ser = NoSer
    /\ hdr = NoHdr
    /\ pin = NoPin
    /\ \E signed \in BOOLEAN, endian \in Endians :
          \E field \in { None } \cup { Some(x) : x \in NonZero(signed) } :
             niche = [signed |-> signed, endian |-> endian,
                      inner |-> resolve_from_option(endian, field),
                      opt |-> field, op |-> "none", prev |-> "none",
                      arg |-> 0, res |-> None, before |-> field]

NextNiche ==
    \/ IsNone
    \/ IsSome
    \/ Take
    \/ \E v \in NonZero(niche.signed) : GetOrInsert(v)

SpecNiche == InitNiche /\ [][NextNiche]_vars

\* ============================================================ properties
Inserted(k) == \E i \in 1 .. len : input[i].key = k
ValueOfKey(k) == (CHOOSE e \in Range(input) : e.key = k).value

Occupied(es) == { j \in DOMAIN es : es[j] # None }
PlacedKeys == { entries[j].val.key : j \in Occupied(entries) }

\* the buckets whose 'find_seed loop ran through the whole seed range
ProcessedBuckets == { displaces[i].displace : i \in 1 .. start }
ExhaustedBuckets ==
    { displaces[i].displace :
        i \in { i \in 1 .. start : displaces[i].key \notin PlacedKeys } }
BucketEnd(d) ==
    CHOOSE i \in 1 .. Len(displaces) :
        /\ displaces[i].displace = d
        /\ \A j \in 1 .. Len(displaces) : displaces[j].displace = d => j <= i

PlacementComplete ==
    pc \notin { "gather", "order" } /\ start = Len(displaces)

LookupOps == { "get", "get_key_value", "contains_key" }

\* C1: after a successful construction get(k) returns the value inserted
\* with k for every inserted key and absent for every other key, for every
\* input of n >= 0 pairs with distinct keys.
C1_RoundTrip ==
    last.op = "get" =>
        IF Inserted(last.key) THEN last.res = Some(ValueOfKey(last.key))
        ELSE last.res = None

\* C2: get, get_key_value and contains_key never abort on a well-formed
\* archive, and on the empty archive they report absence for every key.
C2_LookupTotal ==
    last.op \in LookupOps =>
        /\ last.res # Panic
        /\ len = 0 => last.res \in { None, Some(FALSE) }

\* C3: once the seed range is exhausted for a bucket the construction has
\* failed there: no later bucket is processed and no entry is serialized.
C3_SeedExhaustedFails ==
    \A d \in ExhaustedBuckets :
        /\ pc = "place"
        /\ start = BucketEnd(d)
        /\ nserialized = 0

\* C4: every seed the builder writes lies in [HighBit, U32_MAX), so the
\* displacement of a non-empty bucket is never the absence sentinel.
C4_SeedsBelowSentinel ==
    /\ \A d \in ProcessedBuckets \ ExhaustedBuckets :
          bucket_size[d] > 1 =>
              displacements[d] >= HighBit /\ displacements[d] < U32_MAX
    /\ pc = "ready" =>
          \A d \in 0 .. (len - 1) :
              bucket_size[d] > 0 => displace(archive, d) # U32_MAX

\* C5: during placement an occupied slot is never written again and a step
\* that places a bucket fills as many new slots as the bucket has members;
\* when every bucket has been placed, each of the n slots holds exactly one
\* input pair and each input pair is in exactly one slot.
C5_NoSlotTwice ==
    /\ \A j \in Occupied(entries) : entries'[j] = entries[j]
    /\ entries' # entries =>
           Cardinality(Occupied(entries')) =
               Cardinality(Occupied(entries)) + (start' - start)

C5_AllSlotsOnce ==
    (PlacementComplete /\ ExhaustedBuckets = {}) =>
        /\ \A j \in 0 .. (len - 1) :
              entries[j] # None /\ entries[j].val \in Range(input)
        /\ \A i \in 1 .. len :
              Cardinality({ j \in 0 .. (len - 1) :
                              entries[j] = Some(input[i]) }) = 1

C5_Permutation ==
    [][pc = "place" => C5_NoSlotTwice]_vars /\ []C5_AllSlotsOnce

\* a bucket of two took slots 0 and 1 and the singleton went past them
C5_Witness ==
    /\ PlacementComplete
    /\ ExhaustedBuckets = {}
    /\ len = 3
    /\ \E d1, d2 \in 0 .. (len - 1) :
          /\ bucket_size[d1] = 2
          /\ bucket_size[d2] = 1
          /\ displacements[d2] = 2

\* C6: in a completed archive every slot i is the direct index stored for
\* the bucket of its key, or that bucket stores a seed s and the hash of
\* (s, key) mod n is i.
C6_PlacementConsistency ==
    pc = "ready" =>
        \A i \in 0 .. (Len_(archive) - 1) :
            LET k == entry(archive, i).key
                d == displace(archive, hash1[k] % Len_(archive))
            IN  \/ d < HighBit /\ d = i
                \/ /\ d >= HighBit
                   /\ << d, k >> \in DOMAIN hash2
                   /\ hash2[<< d, k >>] % Len_(archive) = i

C6_Witness ==
    /\ pc = "ready"
    /\ \E d1, d2 \in 0 .. (Len_(archive) - 1) :
          /\ displace(archive, d1) < HighBit
          /\ displace(archive, d2) >= HighBit
          /\ displace(archive, d2) < U32_MAX

\* C7: in a completed archive displacements[d] is the sentinel iff bucket d
\* is empty, a direct index below n iff it has one member, and a seed other
\* than the sentinel iff it has more than one member.
C7_DisplacementEncoding ==
    pc = "ready" =>
        \A d \in 0 .. (len - 1) :
            LET w == displace(archive, d)
            IN  /\ (w = U32_MAX) <=> (bucket_size[d] = 0)
                /\ (w < HighBit /\ w < len) <=> (bucket_size[d] = 1)
                /\ (w >= HighBit /\ w # U32_MAX) <=> (bucket_size[d] > 1)

\* C8: on an archive built from n pairs and resolved with len = n, len()
\* returns n and is_empty() returns true iff n = 0.
C8_Length ==
    /\ last.op = "len" => last.res = Some(Len(input))
    /\ last.op = "is_empty" => last.res = Some(Len(input) = 0)

C8_Witness ==
    /\ pc = "ready"
    /\ last.op = "is_empty"
    /\ Len(input) = 0
    /\ last.res = Some(TRUE)

\* C9: iter() yields the entries of slots 0, 1, ... in that order, and once
\* drained it has yielded every input pair exactly once and nothing else.
Count(s, x) == Cardinality({ i \in 1 .. Len(s) : s[i] = x })

C9_IterationComplete ==
    (it # None /\ it.val.kind = "iter") =>
        /\ \A j \in 1 .. Len(yielded) :
              yielded[j] = << entry(archive, j - 1).key,
                              entry(archive, j - 1).value >>
        /\ it.val.remaining = 0 =>
              /\ Len(yielded) = Len(input)
              /\ \A i \in 1 .. len :
                    Count(yielded, << input[i].key, input[i].value >>) =
                    Count(input, input[i])

C9_Witness ==
    /\ it # None
    /\ it.val.kind = "iter"
    /\ it.val.remaining = 0
    /\ Len(yielded) = 3

\* C10: every iterator reports size_hint (r, Some(r)) with r = n minus the
\* number of items yielded; a next() that yields lowers r by one; after
\* next() returned None it returns None again and r stays 0.
Remaining == Len_(archive) - Len(yielded)

C10_SizeHint ==
    it # None => size_hint(it.val) = << Remaining, Some(Remaining) >>

C10_Step ==
    (it # None /\ it' # None) =>
        /\ Len(yielded') = Len(yielded) + 1 =>
              /\ nextRes'.tag = "Some"
              /\ size_hint(it'.val)[1] = size_hint(it.val)[1] - 1
        /\ nextRes = None =>
              /\ nextRes' = None
              /\ yielded' = yielded
              /\ size_hint(it'.val)[1] = 0

C10_ExactSizeFused == []C10_SizeHint /\ [][C10_Step]_vars

C10_Witness ==
    /\ it # None
    /\ it.val.kind = "values_pin"
    /\ nextRes = None
    /\ Len(yielded) = 2

\* C11: two constructions given the same pairs in the same order agree,
\* whenever they are at the same place of the code, on the bucket sizes, the
\* bucket order, the displacements, the entry permutation and the number
\* of entries serialized, and they end alike with the same archive.
SameAsParked ==
    /\ bucket_size = twin.parked.bucket_size
    /\ displaces = twin.parked.displaces
    /\ displacements = twin.parked.displacements
    /\ entries = twin.parked.entries
    /\ nserialized = twin.parked.nserialized
    /\ archive = twin.parked.archive

SameContent == Range(input) = Range(twin.parked.input)

C12_EqualityUnderPermutation ==
    last.op = "eq" => last.res = Some(SameContent)

\* C13: after a write of v' through the handle returned by get_pin(k) or
\* yielded for k by a pinned iterator, get(k) returns v'; the write leaves
\* len, the displacements, every key and every other value as they were,
\* and every other key looks up as it did in the archive as built.
BuiltArchive ==
    [archive EXCEPT !.entries =
        [j \in DOMAIN archive.entries |->
            IF \E i \in 1 .. len : input[i].key = archive.entries[j].key
            THEN Entry(archive.entries[j].key,
                       ValueOfKey(archive.entries[j].key))
            ELSE archive.entries[j]]]

GetOutcomes(a, k) ==
    UNION { { get(a, k, h1, h2) : h2 \in SecondHashes(a, k, h1) } :
              h1 \in HashOfKey(k) }

C13_ReadsWritten ==
    (pc = "ready" /\ last.op = "get") =>
        IF last.key \in DOMAIN pin.written
        THEN last.res = Some(pin.written[last.key])
        ELSE last.res \in GetOutcomes(BuiltArchive, last.key)

C13_Frame ==
    (pc = "ready" /\ archive' # archive) =>
        /\ Len_(archive') = Len_(archive)
        /\ archive'.displace = archive.displace
        /\ \E i \in DOMAIN archive.entries :
              \A j \in DOMAIN archive.entries :
                 /\ entry(archive', j).key = entry(archive, j).key
                 /\ j # i => entry(archive', j).value = entry(archive, j).value

C13_MutationThroughPin == []C13_ReadsWritten /\ [][C13_Frame]_vars

\* C14: map[k] returns what get(k) returns when k is present and fails
\* exactly when k is absent; get, get_key_value, contains_key, get_pin and
\* get_key_value_pin never fail on an absent key, they report absence.
TotalLookupOps ==
    { "get", "get_key_value", "contains_key", "get_pin",
      "get_key_value_pin" }

C14_IndexFailsOnAbsence ==
    /\ last.op = "index" =>
          IF Inserted(last.key)
          THEN /\ last.res = Some(ValueOfKey(last.key))
               /\ last.res \in GetOutcomes(archive, last.key)
          ELSE last.res = Panic
    /\ (last.op \in TotalLookupOps /\ ~Inserted(last.key)) =>
          last.res \in { None, Some(FALSE) }

\* C15: if a serializer call made by serialize_from_iter fails, the
\* function returns that call's error unchanged and no resolver, and that
\* call is the last one it makes; otherwise it returns a resolver.
FailedCalls == { i \in 1 .. Len(ser.log) : ser.log[i].res # "Ok" }
Returned == pc \in { "failed", "resolve", "ready", "overflow", "panicked" }

DisplaceDistance ==
    ser.ret.val.displace_pos - (hdr.pos + SizeOfU32)
EntriesDistance ==
    ser.ret.val.entries_pos - (hdr.pos + 2 * SizeOfU32)

C16_OffsetOverflow ==
    hdr # NoHdr =>
        /\ ~Fits(DisplaceDistance) =>
              /\ hdr.res = Err("OffsetOverflow")
              /\ hdr.displace = None /\ hdr.entries = None
        /\ ~Fits(EntriesDistance) =>
              /\ hdr.res = Err("OffsetOverflow")
              /\ hdr.entries = None
        /\ hdr.res.tag = "Err" <=> pc = "overflow"
        /\ hdr.displace # None => hdr.displace.val = DisplaceDistance
        /\ hdr.entries # None => hdr.entries.val = EntriesDistance
        /\ (Fits(DisplaceDistance) /\ Fits(EntriesDistance)) =>
              /\ hdr.res.tag = "Ok"
              /\ hdr.displace # None /\ hdr.entries # None

\* the displace pointer was written, at the lowest offset that fits, and
\* the entries block is out of reach
C16_Witness ==
    /\ pc = "overflow"
    /\ hdr.displace = Some(OffsetMin)
    /\ hdr.entries = None
    /\ ~Fits(EntriesDistance)

\* C17: a read (len, is_empty, get, get_key_value, contains_key, indexing,
\* iter, keys, values, equality) leaves the archive as it is, so that,
\* however the reads of two readers interleave, what each of them was
\* given is what the same read run alone on the archive returns.
C17_ReadFrame == pc = "ready" => archive' = archive

ReadAlone(op, k) ==
    UNION { { CASE op = "get" -> get(archive, k, h1, h2)
                [] op = "get_key_value" -> get_key_value(archive, k, h1, h2)
                [] op = "contains_key" -> contains_key(archive, k, h1, h2)
                [] op = "index" -> Index_index(archive, k, h1, h2) :
              h2 \in SecondHashes(archive, k, h1) } : h1 \in HashOfKey(k) }

C17_ReadsAgree ==
    /\ last.op \in { "get", "get_key_value", "contains_key", "index" } =>
          last.res \in ReadAlone(last.op, last.key)
    /\ last.op = "len" => last.res = Some(Len_(archive))
    /\ last.op = "is_empty" => last.res = Some(is_empty(archive))
    /\ last.op = "eq" => last.res.val \in eq(archive, archive)
    /\ it # None =>
          \A j \in 1 .. Len(yielded) :
              yielded[j] = Item(it.val.kind, entry(archive, j - 1))

C17_ConcurrentReaders == []C17_ReadsAgree /\ [][C17_ReadFrame]_vars

\* a get returned while the other reader was half way through iter()
C17_Witness ==
    /\ pc = "ready"
    /\ last.op = "get"
    /\ last.res.tag = "Some"
    /\ it # None
    /\ it.val.kind = "iter"
    /\ Len(yielded) = 1
    /\ it.val.remaining = 1

\* C18: for every niched Option<NonZero> and every sequence of take and
\* get_or_insert calls, is_none() is true iff the stored integer is 0 and
\* is_some() iff it is not; take() returns the stored x and leaves None if
\* x # 0, returns None and leaves None if it is 0, so that a take after a
\* take returns None; get_or_insert(v) stores v only when the option was
\* None and leaves the stored value alone otherwise.
\* the stored integer is 0 iff both of its bytes are
Stored == niche.inner[1] + niche.inner[2]
StoredValue ==
    IF niche.opt = None THEN 0 ELSE niche.opt.val

C18_NicheOption ==
    /\ (niche.opt = None) <=> (Stored = 0)
    /\ niche.inner = to_archived(niche.endian, StoredValue)
    /\ niche.op = "is_none" => niche.res = (niche.before = None)
    /\ niche.op = "is_some" => niche.res = (niche.before # None)
    /\ niche.op \in { "is_none", "is_some" } => niche.opt = niche.before
    /\ niche.op = "take" =>
          /\ niche.opt = None
          /\ IF niche.before = None THEN niche.res = None
             ELSE /\ niche.res.tag = "Some"
                  /\ from_archived(niche.endian, niche.signed,
                                   niche.res.val) = niche.before.val
          /\ niche.prev = "take" => niche.res = None
    /\ niche.op = "get_or_insert" =>
          /\ niche.opt = IF niche.before = None THEN Some(niche.arg)
                         ELSE niche.before
          /\ from_archived(niche.endian, niche.signed, niche.res) =
                niche.opt.val

\* a big-endian signed option was taken twice
C18_Witness ==
    /\ niche.op = "take"
    /\ niche.prev = "take"
    /\ niche.signed
    /\ niche.endian = "big"
    /\ niche.res = None
    /\ Stored = 0

\* C19: the sorted list holds the buckets in order of non-increasing size,
\* buckets of one size by increasing bucket id; the members of bucket d are
\* one run of exactly bucket_size[d] elements, in input order; and the
\* builder takes the list run by run.
Sorted == pc \notin { "gather", "order" }
InputIndex(k) == CHOOSE i \in 1 .. len : input[i].key = k
MembersAt(d) == { i \in 1 .. Len(displaces) : displaces[i].displace = d }

C19_BucketOrder ==
    Sorted =>
        /\ Len(displaces) = len
        /\ \A i \in 1 .. (Len(displaces) - 1) :
              LET a == displaces[i].displace
                  b == displaces[i + 1].displace
              IN  /\ bucket_size[a] >= bucket_size[b]
                  /\ bucket_size[a] = bucket_size[b] => a <= b
                  /\ a = b =>
                        InputIndex(displaces[i].key) <
                            InputIndex(displaces[i + 1].key)
        /\ \A d \in 0 .. (len - 1) :
              /\ Cardinality(MembersAt(d)) = bucket_size[d]
              /\ \A i, j \in MembersAt(d) :
                    \A m \in i .. j : m \in MembersAt(d)
        /\ (pc = "place" /\ start < Len(displaces)) =>
              /\ start = 0 \/ displaces[start].displace # CurDisplace
              /\ MembersAt(CurDisplace) = (start + 1) .. (start + CurSize)

\* three pairs: the first and the third share bucket 2 and come first, the
\* second, alone in bucket 0, comes last; the bucket of two is being placed
C19_Witness ==
    /\ pc = "place"
    /\ start = 0
    /\ len = 3
    /\ displaces[1].displace = 2 /\ displaces[1].key = 1
    /\ displaces[2].displace = 2 /\ displaces[2].key = 3
    /\ displaces[3].displace = 0 /\ displaces[3].key = 2

\* C20: the seed written for a bucket of more than one member is the
\* smallest seed from HighBit on under which the members hash to pairwise
\* distinct slots that are all empty when the bucket is processed: the
\* scan of every bucket begins at HighBit, a seed is passed over only after
\* a member hashed to an occupied slot or to the slot of an earlier member,
\* the next seed tried is the next integer, the slots do not change during
\* the scan, and the seed written is the one that passed the test.
Slot(h) == h % len

\* the hashes `dr` of the first members of the bucket under seed s show
\* that s fails the test
FailsTest(dr, s) ==
    \E m \in 1 .. CurSize :
        /\ DOMAIN dr = { << s, CurBucket[i].key >> : i \in 1 .. m }
        /\ \/ entries[Slot(dr[<< s, CurBucket[m].key >>])] # None
           \/ \E j \in 1 .. (m - 1) :
                 Slot(dr[<< s, CurBucket[j].key >>]) =
                     Slot(dr[<< s, CurBucket[m].key >>])

\* the hashes `h` of all the members under seed s pass it
PassesTest(h, s) ==
    /\ \A i \in 1 .. CurSize :
          /\ << s, CurBucket[i].key >> \in DOMAIN h
          /\ entries[Slot(h[<< s, CurBucket[i].key >>])] = None
    /\ \A i, j \in 1 .. CurSize :
          i # j => Slot(h[<< s, CurBucket[i].key >>]) #
                       Slot(h[<< s, CurBucket[j].key >>])

Scanning == pc = "place" /\ start < Len(displaces) /\ CurSize > 1

C20_Scan ==
    pc = "place" =>
        /\ seed >= HighBit /\ seed <= U32_MAX
        /\ seed > HighBit =>
              /\ Scanning
              /\ displacements[CurDisplace] = U32_MAX
              /\ FailsTest(drawn, seed - 1)

C20_Step ==
    /\ start' # start => seed' = HighBit
    /\ Scanning =>
          \/ /\ displacements' =
                    [displacements EXCEPT ![CurDisplace] = seed]
             /\ PassesTest(hash2', seed)
             /\ start' = NextBucket
          \/ /\ displacements' = displacements
             /\ entries' = entries
             /\ FailsTest(drawn', seed)
             /\ IF seed < U32_MAX
                THEN seed' = seed + 1 /\ start' = start
                ELSE start' = NextBucket

C20_SmallestSeed == []C20_Scan /\ [][C20_Step]_vars

\* the second seed of the range was written for a bucket of two, after the
\* first one was passed over
C20_Witness ==
    /\ pc = "place"
    /\ start = 2
    /\ bucket_size[displaces[1].displace] = 2
    /\ displacements[displaces[1].displace] = HighBit + 1

\* C21: in the sorted list no bucket of several members comes after a
\* bucket of one, so that all of them have been processed when a singleton
\* is; during placement every slot below first_empty is occupied; the
\* step that processes a singleton puts its member in the lowest empty slot
\* of the whole entries array, writes that slot index, which is below
\* HighBit, to displacements[d] and moves first_empty past the slot.
AtSingleton == pc = "place" /\ start < Len(displaces) /\ CurSize = 1
LowestEmpty ==
    CHOOSE j \in EmptyFrom(0) : \A m \in EmptyFrom(0) : j <= m

C21_Phases ==
    Sorted =>
        /\ \A i, j \in 1 .. Len(displaces) :
              (i < j /\ bucket_size[displaces[j].displace] > 1) =>
                  bucket_size[displaces[i].displace] > 1
        /\ pc = "place" =>
              \A j \in 0 .. (first_empty - 1) : entries[j] # None
        /\ AtSingleton =>
              \A i \in 1 .. Len(displaces) :
                  bucket_size[displaces[i].displace] > 1 => i <= start

C21_Step ==
    AtSingleton =>
        /\ EmptyFrom(0) # {}
        /\ LowestEmpty < HighBit
        /\ entries' = [entries EXCEPT ![LowestEmpty] =
                          Some(Entry(CurBucket[1].key, CurBucket[1].value))]
        /\ displacements' =
              [displacements EXCEPT ![CurDisplace] = LowestEmpty]
        /\ first_empty' = LowestEmpty + 1

C21_SingletonPlacement == []C21_Phases /\ [][C21_Step]_vars

\* a bucket of two took slots 0 and 2 and the singleton went between them
C21_Witness ==
    /\ pc = "place"
    /\ start = 3
    /\ len = 3
    /\ first_empty = 2
    /\ bucket_size[displaces[1].displace] = 2
    /\ displacements[displaces[1].displace] >= HighBit
    /\ displacements[displaces[1].displace] < U32_MAX
    /\ displacements[displaces[3].displace] = 1

\* C22: if bucket A is placed before bucket B, every member of A is in a
\* lower slot than every member of B, and two members of one bucket are in
\* slots ordered as the members are in the input.
SlotOf(k) == CHOOSE j \in Occupied(entries) : entries[j].val.key = k
PlacedAt == { i \in 1 .. start : displaces[i].key \in PlacedKeys }

C22_EntriesInPlacementOrder ==
    pc = "place" =>
        \A i, j \in PlacedAt :
            i < j => SlotOf(displaces[i].key) < SlotOf(displaces[j].key)

\* C22 as amended: the members of singleton buckets are in slots ordered
\* as their buckets are placed; a member of a bucket of several is in the
\* slot the hash of (the bucket's seed, its key) selects.
C22_SingletonsInPlacementOrder ==
    pc = "place" =>
        /\ \A i, j \in PlacedAt :
              (/\ i < j
               /\ bucket_size[displaces[i].displace] = 1
               /\ bucket_size[displaces[j].displace] = 1) =>
                  SlotOf(displaces[i].key) < SlotOf(displaces[j].key)
        /\ \A i \in PlacedAt :
              LET d == displaces[i].displace
                  k == displaces[i].key
              IN  bucket_size[d] > 1 =>
                     /\ << displacements[d], k >> \in DOMAIN hash2
                     /\ SlotOf(k) = hash2[<< displacements[d], k >>] % len

\* the first member of a bucket of two went to slot 2, the second to slot
\* 0, and the singleton placed after them went to slot 1
C22_Witness ==
    /\ pc = "place"
    /\ start = 3
    /\ len = 3
    /\ bucket_size[displaces[1].displace] = 2
    /\ SlotOf(displaces[1].key) = 2
    /\ SlotOf(displaces[2].key) = 0
    /\ SlotOf(displaces[3].key) = 1

\* C23: the calls made to the serializer are, in this order, key then
\* value of slot 0, ..., of slot n-1, align_for, write, align_for, and
\* resolve_aligned of slots 0 .. n-1; the write of the displacements is
\* made at the aligned position displace_pos and advances it by 4n bytes;
\* the first record is resolved at the aligned position entries_pos; and
\* the resolver returned carries these two positions, with
\* displace_pos + 4n <= entries_pos.
CallsOfEntries(n) ==
    [i \in 1 .. (2 * n) |->
        << IF i % 2 = 1 THEN "serialize_key" ELSE "serialize_value",
           (i - 1) \div 2 >>]
CallsOfBlocks(n) ==
    << << "align_for", 0 >>, << "write", 0 >>, << "align_for", 1 >> >>
        \o [i \in 1 .. n |-> << "resolve_aligned", i - 1 >>]
ExpectedCalls(n) == CallsOfEntries(n) \o CallsOfBlocks(n)
CallsMade == [i \in 1 .. Len(ser.log) |-> << ser.log[i].call, ser.log[i].slot >>]

C23_Order ==
    /\ Len(ser.log) <= Len(ExpectedCalls(len))
    /\ CallsMade = SubSeq(ExpectedCalls(len), 1, Len(ser.log))
    /\ ser.ret.tag = "Ok" =>
          /\ CallsMade = ExpectedCalls(len)
          /\ \A i \in 1 .. Len(ser.log) : ser.log[i].res = "Ok"
          /\ ser.displace_pos % SizeOfU32 = 0
          /\ ser.entries_pos % SizeOfU32 = 0
          /\ ser.displace_pos + len * SizeOfU32 <= ser.entries_pos
          /\ ser.ret.val = [displace_pos |-> ser.displace_pos,
                            entries_pos |-> ser.entries_pos]

C23_Step ==
    /\ (pc = "write_displace" /\ pc' = "align_entries") =>
          /\ ser.pos = ser.displace_pos
          /\ ser'.pos = ser.displace_pos + len * SizeOfU32
    /\ (pc = "resolve_entries" /\ ser'.nresolved = ser.nresolved + 1) =>
          ser.pos = ser.entries_pos + ser.nresolved * SizeOfEntry

C23_SerializationOrder == []C23_Order /\ [][C23_Step]_vars

\* three entries: the displacements went to position 4, after padding, and
\* the records to position 16
C23_Witness ==
    /\ ser.ret.tag = "Ok"
    /\ len = 3
    /\ Len(ser.log) = 12
    /\ ser.ret.val.displace_pos = 4
    /\ ser.ret.val.entries_pos = 16

\* C24: a construction goes through the phases gather, order, place,
\* serialize in this order, one phase at a time and never back; during
\* placement a step that leaves a bucket leaves it for the next one, so
\* that every non-empty bucket is processed once, and a seed that is
\* rejected is followed by the next seed or, on the last seed of the range,
\* by the end of the search, so that the search ends; the header is
\* resolved only after serialize_from_iter returned a resolver and no step
\* follows it; and every construction comes to an end.
SerializePhase ==
    { "serialize", "write_displace", "align_entries", "resolve_entries" }
Aborted == { "failed", "panicked", "overflow" }
Ended == pc \in Aborted \cup { "ready" }
Phase(p) ==
    CASE p = "gather" -> 1
      [] p = "order" -> 2
      [] p = "place" -> 3
      [] p \in SerializePhase -> 4
      [] p = "resolve" -> 5
      [] p = "ready" -> 6
      [] p \in Aborted -> 7
NonEmptyBuckets == { d \in 0 .. (len - 1) : bucket_size[d] > 0 }

C24_PhaseStep ==
    /\ ~Ended
    /\ pc' \notin Aborted => Phase(pc') \in { Phase(pc), Phase(pc) + 1 }
    /\ hdr = NoHdr
    /\ pc = "place" =>
          /\ start' # start =>
                /\ start' = NextBucket
                /\ CurDisplace \notin ProcessedBuckets
          /\ (Scanning /\ start' = start) =>
                seed < U32_MAX /\ seed' = seed + 1

C24_PhaseState ==
    /\ Phase(pc) >= 4 => (Sorted /\ ProcessedBuckets = NonEmptyBuckets)
    /\ hdr # NoHdr => (ser.ret.tag = "Ok" /\ pc \in { "ready", "overflow" })
    /\ pc = "ready" => hdr # NoHdr
    /\ ser.ret.tag = "Ok" => (ser.nresolved = len /\ nserialized = len)

C24_BuilderPhases ==
    /\ [][C24_PhaseStep]_vars
    /\ []C24_PhaseState
    /\ <>Ended

\* the header resolve was reached (and found the blocks too far away)
\* after a construction whose bucket of two members took the second seed
\* of the range, the first one being rejected
C24_Witness ==
    /\ pc = "overflow"
    /\ ser.ret.tag = "Ok"
    /\ hdr # NoHdr
    /\ len = 2
    /\ \E d \in 0 .. 1 : bucket_size[d] = 2 /\ displacements[d] = HighBit + 1

\* C25: the header holds len = n and, in each pointer field that was
\* written, the target position minus the position of that field, so that
\* the field's own position plus the offset stored in it is the position
\* of the block, wherever the header lies and wherever the buffer was
\* moved; both fields are written unless an offset does not fit.
as_ptr(pos, fp, offset) == pos + fp + offset

C25_HeaderResolve ==
    hdr # NoHdr =>
        /\ hdr.len = Some(len)
        /\ hdr.displace # None =>
              /\ hdr.displace.val =
                    ser.ret.val.displace_pos -
                        (hdr.pos + FieldOffset.displace)
              /\ as_ptr(hdr.pos, SizeOfU32, hdr.displace.val) =
                    ser.ret.val.displace_pos
        /\ hdr.entries # None =>
              /\ hdr.entries.val =
                    ser.ret.val.entries_pos - (hdr.pos + FieldOffset.entries)
              /\ as_ptr(hdr.pos, 2 * SizeOfU32, hdr.entries.val) =
                    ser.ret.val.entries_pos
        /\ pc = "ready" => (hdr.displace # None /\ hdr.entries # None)

\* the header lies between the two blocks, the displacements before it
\* and the entries after it, and the buffer was moved two words on
C25_Witness ==
    /\ pc = "ready"
    /\ len = 1
    /\ ser.pos = 2 * SizeOfU32
    /\ hdr.displace.val < 0
    /\ hdr.entries.val > 0

\* C26: a lookup that returns has hashed once or twice, compared keys
\* once and gone through no statement twice; it has hashed twice iff the
\* displacement it read has its high bit set and is not the sentinel; it
\* has read one displacement word and at most one entry.
ProbeDone == last.op = "probe" /\ last.at = "done"
Seeded(d) == d >= HighBit /\ d # U32_MAX
Place(at) ==
    CASE at = "displace" -> 1
      [] at = "rehash" -> 2
      [] at = "entry" -> 3
      [] at = "done" -> 4

C26_CostOfDone ==
    ProbeDone =>
        /\ last.hashes \in { 1, 2 }
        /\ last.compares <= 1
        /\ last.reads = last.compares
        /\ last.hashes = 2 <=> (last.words = 1 /\ Seeded(last.d))
        /\ last.res = index(archive, last.key, last.h1, last.h2)
        /\ IF Len_(archive) = 0
           THEN last.res = Panic /\ last.words = 0 /\ last.reads = 0
           ELSE /\ last.words = 1
                /\ last.compares = 1 <=> last.d # U32_MAX

C26_NoLoop ==
    (last.op = "probe" /\ last'.op = "probe") =>
        Place(last'.at) > Place(last.at)

SlotsOf(h, s) ==
    { Slot(h[<< s, CurBucket[i].key >>]) : i \in 1 .. CurSize }

C27_RejectedSeed ==
    Scanning =>
        /\ FailsTest(drawn', seed) =>
              entries' = entries /\ displacements' = displacements
        /\ (entries' # entries \/ displacements' # displacements) =>
              /\ PassesTest(hash2', seed)
              /\ displacements' =
                    [displacements EXCEPT ![CurDisplace] = seed]
              /\ \A j \in 0 .. (len - 1) :
                    IF j \in SlotsOf(hash2', seed)
                    THEN /\ entries[j] = None
                         /\ entries'[j] # None
                         /\ entries'[j].val.key \in CurKeys
                         /\ Slot(hash2'[<< seed, entries'[j].val.key >>]) = j
                    ELSE entries'[j] = entries[j]

DupPairs ==
    { p \in (1 .. len) \X (1 .. len) :
        p[1] < p[2] /\ input[p[1]].key = input[p[2]].key }
DupBuckets == { hash1[input[p[1]].key] % len : p \in DupPairs }

C28_State ==
    (DupPairs # {} /\ pc # "gather") =>
        /\ \A d \in DupBuckets : bucket_size[d] >= 2
        /\ \A i \in 1 .. len :
              \A p \in DupPairs :
                  displaces[i].key = input[p[1]].key =>
                      displaces[i].displace = hash1[input[p[1]].key] % len
        /\ pc # "order" =>
              /\ \A d \in DupBuckets : displacements[d] = U32_MAX
              /\ \A j \in Occupied(entries) :
                    hash1[entries[j].val.key] % len \notin DupBuckets
        /\ pc \notin { "write", "resolve", "ready" }
        /\ archive = NoArchive

C28_Step ==
    (DupPairs # {} /\ Scanning /\ CurDisplace \in DupBuckets) =>
        /\ FailsTest(drawn', seed)
        /\ entries' = entries
        /\ displacements' = displacements

C28_DuplicateKeys == []C28_State /\ [][C28_Step]_vars

\* the first two of three pairs have the same key: their bucket was given
\* up with the seed range exhausted, the third pair went to slot 0 and was
\* serialized, and the construction aborted on the empty slot 1
C28_Witness ==
    /\ pc = "panicked"
    /\ len = 3
    /\ input[1].key = input[2].key
    /\ bucket_size[hash1[input[1].key] % len] = 2
    /\ displacements[hash1[input[1].key] % len] = U32_MAX
    /\ entries[0] = Some(input[3])
    /\ entries[1] = None
    /\ nserialized = 1

\* C29: when a singleton bucket is processed and every bucket of several
\* members before it found a seed, first_empty is at most n - 1 and a slot
\* at or after first_empty is empty; the step does not abort and writes a
\* slot index below n; no direct index in displacements is n or more.
C29_State ==
    /\ (AtSingleton /\ ExhaustedBuckets = {}) =>
          /\ first_empty <= len - 1
          /\ \E j \in first_empty .. (len - 1) : entries[j] = None
    /\ pc = "place" =>
          /\ first_empty <= len
          /\ \A d \in 0 .. (len - 1) :
                displacements[d] < HighBit => displacements[d] < len

C29_Step ==
    (AtSingleton /\ ExhaustedBuckets = {}) =>
        /\ pc' = "place"
        /\ displacements'[CurDisplace] < len
        /\ displacements'[CurDisplace] >= first_empty
        /\ first_empty' = displacements'[CurDisplace] + 1

C29_SingletonSearch == []C29_State /\ [][C29_Step]_vars

\* a bucket of two took slots 0 and 1: the search for the singleton begins
\* at slot 0 and has the one empty slot, 2, to find
C29_Witness ==
    /\ AtSingleton
    /\ ExhaustedBuckets = {}
    /\ len = 3
    /\ start = 2
    /\ first_empty = 0
    /\ entries[0] # None
    /\ entries[1] # None
    /\ entries[2] = None

\* C30: on two archives built by the builder, a == a and b == b are true
\* and a == b has the value of b == a; two empty archives are equal.
C30_EqReflexiveSymmetric ==
    last.op = "eq_both" =>
        /\ last.res.val.aa
        /\ last.res.val.bb
        /\ last.res.val.ab = last.res.val.ba
        /\ (Len_(archive) = 0 /\ Len_(twin.parked.archive) = 0) =>
              last.res.val.ab
====
